---- MODULE Spec2Model ----
(***************************************************************************)
(* Schema consolidation pipeline of database/scripts:                      *)
(*   extract_tables.py        writes one file per table,                   *)
(*   resolve_dependencies.py  builds the FK graph and the resolved order,  *)
(*   split_by_schema.py       assigns the CREATE blocks to group files,    *)
(*   validate_schema.py       counts the lines of the group files.         *)
(*                                                                         *)
(* A text is a sequence of tokens.  Every token is a record                *)
(*   [tok, table, nl, fks]                                                 *)
(* where tok is the text the token starts with, nl the number of "\n"      *)
(* characters it holds and fks the tables named by the FOREIGN KEY ...     *)
(* REFERENCES clauses in it.                                               *)
(***************************************************************************)
EXTENDS Integers, Sequences, FiniteSets, TLC

VARIABLES
  pc,              \* position in the pipeline
  extracted,       \* extract_tables.main: dict table -> list of blocks
  files,           \* _schema_extracted/<table>.sql: table -> text
  graph,           \* resolve_dependencies.main: table -> set of tables
  roots,           \* what is left of `for table in sorted(graph)`
  rs,              \* resolved, temp, visited, cycle_report of the resolver
  order_file,      \* _reports/dependency_order.json
  run,             \* which of the two main() calls of split_by_schema runs
  order,           \* split_by_schema.main: the loaded order
  idx,             \* position of `for table in order`
  group_contents,  \* group -> text
  group_lines,     \* group -> accumulated line count
  seeds,           \* list of INSERT statements
  ddl_block,       \* the block being placed
  inserts,         \* insert_statements of the table being placed
  group_index,     \* index into GROUP_ORDER of the cascade loop
  log,             \* split_by_schema.log, a list of lines
  out_files,       \* schema/*.sql: name -> text
  exit_msg         \* the SystemExit message, <<>> while there is none

vars == <<pc, extracted, files, graph, roots, rs, order_file, run, order, idx,
          group_contents, group_lines, seeds, ddl_block, inserts, group_index,
          log, out_files, exit_msg>>

(***************************************************************************)
(* Bounds of the model.                                                    *)
(***************************************************************************)
Tables == {"permissions", "projects", "roles"}

\* code-point order of the table names, as Python's sorted() compares them
TableRank == [t \in Tables |->
                CASE t = "permissions" -> 1
                  [] t = "projects" -> 2
                  [] t = "roles" -> 3]

HalfBlock == 300
FullBlock == 600
OverBlock == 601
BlockSizes == {HalfBlock, FullBlock, OverBlock}

MaxRefs == 2        \* FOREIGN KEY targets of one table, resolver runs
MaxSplitRefs == 1   \* FOREIGN KEY targets of one table, pipeline runs

(***************************************************************************)
(* Configuration of split_by_schema.py.                                    *)
(***************************************************************************)
LINE_LIMIT == 600

GROUP_ORDER == <<"core", "project", "support", "misc">>

GROUPS ==
  [core |-> {"roles", "permissions", "role_permissions", "positions",
             "role_positions", "users", "password_history",
             "password_reset_otps", "refresh_tokens", "mfa_role_settings",
             "mfa_verification_attempts"},
   project |-> {"projects", "project_users", "project_milestones",
                "project_files", "project_client_call_notes",
                "project_daily_status", "project_comments", "tasks",
                "task_comments", "task_history", "bugs", "bug_comments",
                "attachments", "timesheets"},
   support |-> {"employees", "employee_documents", "attendance", "leaves",
                "reimbursements", "holidays", "asset_categories", "assets",
                "asset_laptop_details", "asset_mobile_details",
                "asset_accessory_details", "asset_assignments",
                "asset_tickets", "asset_ticket_comments",
                "asset_ticket_attachments", "asset_audit_logs",
                "asset_maintenance", "asset_approvals", "inventory_items",
                "inventory_transactions", "inventory_attachments"},
   misc |-> {"notifications", "audit_logs", "settings", "fcm_tokens",
             "calendar_reminders"}]

ALLOWED_SEED_TABLES == {"roles", "permissions", "role_permissions",
                        "positions", "role_positions", "settings"}

GroupNames == {GROUP_ORDER[i] : i \in 1..Len(GROUP_ORDER)}

(***************************************************************************)
(* Texts.                                                                  *)
(***************************************************************************)
Token(tok, table, nl, fks) == [tok |-> tok, table |-> table, nl |-> nl, fks |-> fks]

Semicolon == Token(";", "", 0, {})
BlankLine == Token("\n\n", "", 2, {})

\* a CREATE TABLE block of `lines` lines, as CREATE_PATTERN captures it
CreateBlock(t, lines, fks) == <<Token("CREATE TABLE", t, lines - 1, fks), Semicolon>>

\* an INSERT INTO block of one line, as INSERT_PATTERN captures it
InsertBlock(t) == <<Token("INSERT INTO", t, 0, {}), Semicolon>>

IsSpace(token) == token.tok = "\n\n"

RECURSIVE count_newlines(_)
count_newlines(text) ==
  IF text = <<>> THEN 0 ELSE Head(text).nl + count_newlines(Tail(text))

RECURSIVE lstrip(_)
lstrip(text) ==
  IF text # <<>> /\ IsSpace(Head(text)) THEN lstrip(Tail(text)) ELSE text

RECURSIVE rstrip(_)
rstrip(text) ==
  IF text # <<>> /\ IsSpace(text[Len(text)])
  THEN rstrip(SubSeq(text, 1, Len(text) - 1))
  ELSE text

strip(text) == rstrip(lstrip(text))

\* sep.join(texts)
RECURSIVE join(_, _)
join(sep, texts) ==
  IF texts = <<>> THEN <<>>
  ELSE IF Len(texts) = 1 THEN texts[1]
  ELSE texts[1] \o sep \o join(sep, Tail(texts))

RECURSIVE sorted(_)
sorted(S) ==
  IF S = {} THEN <<>>
  ELSE LET m == CHOOSE x \in S : \A y \in S : TableRank[x] <= TableRank[y]
       IN <<m>> \o sorted(S \ {m})

Index(seq, x) == CHOOSE i \in 1..Len(seq) : seq[i] = x /\ \A j \in 1..(i - 1) : seq[j] # x

Range(seq) == {seq[i] : i \in 1..Len(seq)}

(***************************************************************************)
(* extract_tables.py                                                       *)
(***************************************************************************)
\* the per-table file: the comment line, then the blocks joined by "\n\n"
write_table_file(table, blocks) ==
  <<Token("--", table, 1, {})>> \o join(<<BlankLine>>, blocks)

ExtractWrite ==
  /\ pc = "extract"
  /\ files' = [t \in DOMAIN extracted |-> write_table_file(t, extracted[t])]
  /\ pc' = "resolve_build"
  /\ UNCHANGED <<extracted, graph, roots, rs, order_file, run, order, idx,
                 group_contents, group_lines, seeds, ddl_block, inserts,
                 group_index, log, out_files, exit_msg>>

(***************************************************************************)
(* resolve_dependencies.py                                                 *)
(***************************************************************************)
\* the ref_table groups of FK_PATTERN's matches in the text
parse_fks(text) == UNION {text[i].fks : i \in 1..Len(text)}

\* "CREATE TABLE" in text
has_create_table(text) == \E i \in 1..Len(text) : text[i].tok = "CREATE TABLE"

\* graph.get(node, [])
graph_get(node) == IF node \in DOMAIN graph THEN graph[node] ELSE {}

\* stack[stack.index(node):] + [node]
cycle_of(node, stack) ==
  SubSeq(stack, Index(stack, node), Len(stack)) \o <<node>>

\* mutant of begin_node: the node is appended on entry (pre-order)
begin_node_preorder(node, st) ==
  [st EXCEPT !.temp = @ \cup {node}, !.resolved = Append(@, node)]

\* temp.add(node)
begin_node(node, st) == [st EXCEPT !.temp = @ \cup {node}]

\* temp.remove(node); visited.add(node); resolved.append(node)
finish_node(node, st) ==
  [st EXCEPT !.temp = @ \ {node},
             !.visited = @ \cup {node},
             !.resolved = Append(@, node)]

RECURSIVE visit(_, _, _)
RECURSIVE visit_deps(_, _, _)
\* for dep in deps: visit(dep, stack + [dep])
visit_deps(deps, stack, st) ==
  IF deps = <<>> THEN st
  ELSE visit_deps(Tail(deps), stack,
                  visit(Head(deps), Append(stack, Head(deps)), st))

visit(node, stack, st) ==
  IF node \in st.visited THEN st
  ELSE IF node \in st.temp
  THEN [st EXCEPT !.cycle_report = Append(@, cycle_of(node, stack))]
  ELSE finish_node(node,
         visit_deps(sorted(graph_get(node)), stack, begin_node(node, st)))

ResolverStart == [resolved |-> <<>>, temp |-> {}, visited |-> {}, cycle_report |-> <<>>]

SplitterVars == <<run, order, idx, group_contents, group_lines, seeds,
                  ddl_block, inserts, group_index, log, out_files, exit_msg>>

BuildGraph ==
  /\ pc = "resolve_build"
  /\ graph' = [t \in {f \in DOMAIN files : has_create_table(files[f])}
                 |-> parse_fks(files[t])]
  /\ roots' = sorted(DOMAIN graph')
  /\ rs' = ResolverStart
  /\ pc' = "resolve_visit"
  /\ UNCHANGED <<extracted, files, order_file>>
  /\ UNCHANGED SplitterVars

VisitRoot ==
  /\ pc = "resolve_visit"
  /\ roots # <<>>
  /\ rs' = visit(Head(roots), <<Head(roots)>>, rs)
  /\ roots' = Tail(roots)
  /\ UNCHANGED <<pc, extracted, files, graph, order_file>>
  /\ UNCHANGED SplitterVars

WriteOrder ==
  /\ pc = "resolve_visit"
  /\ roots = <<>>
  /\ order_file' = rs.resolved
  /\ pc' = "split_prepare"
  /\ UNCHANGED <<extracted, files, graph, roots, rs>>
  /\ UNCHANGED SplitterVars

(***************************************************************************)
(* Inputs: what extract_tables.main has collected for each table.          *)
(***************************************************************************)
RefSets(max) == {F \in SUBSET Tables : Cardinality(F) <= max}

\* One table's share of the raw sources: no block at all, an INSERT only,
\* a CREATE only, or an INSERT met before the CREATE (two source files).
NoBlocks == [blocks |-> "none", lines |-> 0, fks |-> {}]
InsertOnly == [blocks |-> "insert", lines |-> 0, fks |-> {}]
CreateOnly(lines, fks) == [blocks |-> "create", lines |-> lines, fks |-> fks]
InsertCreate(lines, fks) == [blocks |-> "insert+create", lines |-> lines, fks |-> fks]

\* the inputs of the resolver runs: every graph over Tables
ResolverShapes ==
  {NoBlocks, InsertOnly} \cup {CreateOnly(HalfBlock, F) : F \in RefSets(MaxRefs)}

\* the inputs of the pipeline runs; the size of a CREATE block that opens
\* its file plays no part in them, so one size stands for it
PipelineShapes ==
  {NoBlocks, InsertOnly}
    \cup {CreateOnly(HalfBlock, F) : F \in RefSets(MaxSplitRefs)}
    \cup {InsertCreate(n, F) : n \in BlockSizes, F \in RefSets(MaxSplitRefs)}

\* extracted.setdefault(table, []).append(block), CREATE matches first
BlocksOf(t, shape) ==
  (IF shape.blocks \in {"insert", "insert+create"} THEN <<InsertBlock(t)>> ELSE <<>>)
    \o (IF shape.blocks \in {"create", "insert+create"}
        THEN <<CreateBlock(t, shape.lines, shape.fks)>> ELSE <<>>)

ExtractedOf(shapes) ==
  [t \in {u \in Tables : shapes[u].blocks # "none"} |-> BlocksOf(t, shapes[t])]

InitRest ==
  /\ pc = "extract"
  /\ files = <<>>
  /\ graph = <<>>
  /\ roots = <<>>
  /\ rs = ResolverStart
  /\ order_file = <<>>
  /\ run = 0
  /\ order = <<>>
  /\ idx = 0
  /\ group_contents = [g \in GroupNames |-> <<>>]
  /\ group_lines = [g \in GroupNames |-> 0]
  /\ seeds = <<>>
  /\ ddl_block = <<>>
  /\ inserts = <<>>
  /\ group_index = 0
  /\ log = <<>>
  /\ out_files = <<>>
  /\ exit_msg = <<>>

InitResolve ==
  /\ \E shapes \in [Tables -> ResolverShapes] : extracted = ExtractedOf(shapes)
  /\ InitRest

NextResolve == ExtractWrite \/ BuildGraph \/ VisitRoot \/ WriteOrder

SpecResolve == InitResolve /\ [][NextResolve]_vars

(***************************************************************************)
(* split_by_schema.py                                                      *)
(***************************************************************************)
OutputNames == GroupNames \cup {"seed"}

RECURSIVE split_from(_, _, _)
split_from(text, buffer, stmts) ==
  IF text = <<>>
  THEN IF strip(buffer) # <<>> THEN Append(stmts, strip(buffer)) ELSE stmts
  ELSE LET b == Append(buffer, Head(text))
       IN IF Head(text).tok = ";"
          THEN split_from(Tail(text), <<>>,
                          IF strip(b) # <<>> THEN Append(stmts, strip(b)) ELSE stmts)
          ELSE split_from(Tail(text), b, stmts)

split_statements(text) == split_from(text, <<>>, <<>>)

\* statement.lstrip().upper().startswith("CREATE TABLE")
is_ddl(statement) ==
  LET s == lstrip(statement) IN s # <<>> /\ s[1].tok = "CREATE TABLE"

\* statement.lstrip().upper().startswith("INSERT INTO")
is_insert(statement) ==
  LET s == lstrip(statement) IN s # <<>> /\ s[1].tok = "INSERT INTO"

ddl_statements_of(table) == SelectSeq(split_statements(files[table]), is_ddl)

insert_statements_of(table) == SelectSeq(split_statements(files[table]), is_insert)

\* mutant of write_group_content: the block's lines are left out of the test
write_group_content_no_sum(group, content, contents, lines_of) ==
  LET lines == count_newlines(content) + 1
  IN IF lines_of[group] > LINE_LIMIT
     THEN [ok |-> FALSE, group_contents |-> contents, group_lines |-> lines_of]
     ELSE [ok |-> TRUE,
           group_contents |->
             [contents EXCEPT ![group] =
                IF @ # <<>> THEN @ \o <<BlankLine>> \o content ELSE content],
           group_lines |-> [lines_of EXCEPT ![group] = @ + lines]]

\* mutant of write_group_content: a block that fills the group exactly is refused
write_group_content_ge(group, content, contents, lines_of) ==
  LET lines == count_newlines(content) + 1
  IN IF lines_of[group] + lines >= LINE_LIMIT
     THEN [ok |-> FALSE, group_contents |-> contents, group_lines |-> lines_of]
     ELSE [ok |-> TRUE,
           group_contents |->
             [contents EXCEPT ![group] =
                IF @ # <<>> THEN @ \o <<BlankLine>> \o content ELSE content],
           group_lines |-> [lines_of EXCEPT ![group] = @ + lines]]

\* the outcome of write_group_content: what it returns and the two dicts after it
write_group_content(group, content, contents, lines_of) ==
  LET lines == count_newlines(content) + 1
  IN IF lines_of[group] + lines > LINE_LIMIT
     THEN [ok |-> FALSE, group_contents |-> contents, group_lines |-> lines_of]
     ELSE [ok |-> TRUE,
           group_contents |->
             [contents EXCEPT ![group] =
                IF @ # <<>> THEN @ \o <<BlankLine>> \o content ELSE content],
           group_lines |-> [lines_of EXCEPT ![group] = @ + lines]]

\* GROUPS.items() iterates core, project, support, misc
assign_group(table) ==
  LET hits == {i \in 1..Len(GROUP_ORDER) : table \in GROUPS[GROUP_ORDER[i]]}
  IN IF hits # {}
     THEN GROUP_ORDER[CHOOSE i \in hits : \A j \in hits : i <= j]
     ELSE "misc"

\* GROUP_ORDER.index(group), counted from 1
group_position(group) == CHOOSE i \in 1..Len(GROUP_ORDER) : GROUP_ORDER[i] = group

\* the line log_reassignment writes
log_reassignment(table, from_group, to_group) ==
  [form |-> "Table {table} moved from {from_group} to {to_group}",
   table |-> table, from |-> from_group, to |-> to_group, limit |-> 0]

\* the line the cascade loop of main writes
exceeded_line(table, current_group, next_group) ==
  [form |-> "Exceeded {LINE_LIMIT} lines in {current_group}, moving {table} to {next_group}",
   table |-> table, from |-> current_group, to |-> next_group, limit |-> LINE_LIMIT]

ResolverVars == <<extracted, files, graph, roots, rs, order_file>>

PrepareGroupFiles ==
  /\ pc = "split_prepare"
  /\ out_files' = [f \in OutputNames |-> <<>>]
  /\ log' = <<>>
  /\ run' = 1
  /\ pc' = "split_main"
  /\ UNCHANGED ResolverVars
  /\ UNCHANGED <<order, idx, group_contents, group_lines, seeds, ddl_block,
                 inserts, group_index, exit_msg>>

MainStart ==
  /\ pc = "split_main"
  /\ order' = order_file
  /\ group_contents' = [g \in GroupNames |-> <<>>]
  /\ group_lines' = [g \in GroupNames |-> 0]
  /\ seeds' = <<>>
  /\ idx' = 1
  /\ pc' = "split_loop"
  /\ UNCHANGED ResolverVars
  /\ UNCHANGED <<run, ddl_block, inserts, group_index, log, out_files, exit_msg>>

\* `continue`: the table has no file, or its file has no DDL statement
SkipTable ==
  /\ pc = "split_loop"
  /\ idx <= Len(order)
  /\ LET table == order[idx]
     IN IF table \in DOMAIN files THEN ddl_statements_of(table) = <<>> ELSE TRUE
  /\ idx' = idx + 1
  /\ UNCHANGED ResolverVars
  /\ UNCHANGED <<pc, run, order, group_contents, group_lines, seeds, ddl_block,
                 inserts, group_index, log, out_files, exit_msg>>

BeginTable ==
  /\ pc = "split_loop"
  /\ idx <= Len(order)
  /\ order[idx] \in DOMAIN files
  /\ ddl_statements_of(order[idx]) # <<>>
  /\ ddl_block' = join(<<BlankLine>>, ddl_statements_of(order[idx]))
  /\ inserts' = insert_statements_of(order[idx])
  /\ group_index' = group_position(assign_group(order[idx]))
  /\ pc' = "split_place"
  /\ UNCHANGED ResolverVars
  /\ UNCHANGED <<run, order, idx, group_contents, group_lines, seeds, log,
                 out_files, exit_msg>>

Attempt == write_group_content(GROUP_ORDER[group_index], ddl_block,
                               group_contents, group_lines)

\* the block fits: it is written, then the table's inserts are collected
PlaceTable ==
  /\ pc = "split_place"
  /\ Attempt.ok
  /\ group_contents' = Attempt.group_contents
  /\ group_lines' = Attempt.group_lines
  /\ seeds' = IF order[idx] \in ALLOWED_SEED_TABLES THEN seeds \o inserts ELSE seeds
  /\ idx' = idx + 1
  /\ pc' = "split_loop"
  /\ UNCHANGED ResolverVars
  /\ UNCHANGED <<run, order, ddl_block, inserts, group_index, log, out_files,
                 exit_msg>>

Cascade ==
  /\ pc = "split_place"
  /\ ~Attempt.ok
  /\ group_index + 1 <= Len(GROUP_ORDER)
  /\ log' = Append(log, exceeded_line(order[idx], GROUP_ORDER[group_index],
                                      GROUP_ORDER[group_index + 1]))
  /\ group_index' = group_index + 1
  /\ group_contents' = Attempt.group_contents
  /\ group_lines' = Attempt.group_lines
  /\ UNCHANGED ResolverVars
  /\ UNCHANGED <<pc, run, order, idx, seeds, ddl_block, inserts, out_files,
                 exit_msg>>

Abort ==
  /\ pc = "split_place"
  /\ ~Attempt.ok
  /\ group_index + 1 > Len(GROUP_ORDER)
  /\ exit_msg' = [form |-> "Line limit reached for all groups while placing {table}",
                  table |-> order[idx]]
  /\ pc' = "aborted"
  /\ group_contents' = Attempt.group_contents
  /\ group_lines' = Attempt.group_lines
  /\ UNCHANGED ResolverVars
  /\ UNCHANGED <<run, order, idx, seeds, ddl_block, inserts, group_index, log,
                 out_files>>

\* what main writes to OUTPUT_FILES[name]
output_text(name) ==
  IF name = "seed"
  THEN <<Token("--", "seed", 1, {})>> \o join(<<BlankLine>>, seeds)
  ELSE IF group_contents[name] = <<>>
  THEN <<Token("--", name, 1, {})>>
  ELSE group_contents[name]

\* the files are written; the script then calls main() a second time
WriteOutputs ==
  /\ pc = "split_loop"
  /\ idx > Len(order)
  /\ out_files' = [f \in OutputNames |-> output_text(f)]
  /\ IF run = 1
     THEN run' = 2 /\ pc' = "split_main"
     ELSE run' = run /\ pc' = "done"
  /\ UNCHANGED ResolverVars
  /\ UNCHANGED <<order, idx, group_contents, group_lines, seeds, ddl_block,
                 inserts, group_index, log, exit_msg>>

(***************************************************************************)
(* validate_schema.py                                                      *)
(***************************************************************************)
ValidatorLimit == 600

\* len(text.splitlines())
splitlines_len(text) ==
  IF text = <<>> THEN 0
  ELSE IF text[Len(text)].tok \in {"--", "\n\n"}
  THEN count_newlines(text)
  ELSE count_newlines(text) + 1

\* the (file, lines) pairs check_line_limits returns
check_line_limits ==
  {<<g, splitlines_len(out_files[g])>> :
     g \in {h \in GroupNames \cap DOMAIN out_files :
              splitlines_len(out_files[h]) > ValidatorLimit}}

(***************************************************************************)
(* The pipeline.                                                           *)
(***************************************************************************)
Init ==
  /\ \E shapes \in [Tables -> PipelineShapes] : extracted = ExtractedOf(shapes)
  /\ InitRest

NextSplit ==
  \/ PrepareGroupFiles \/ MainStart \/ SkipTable \/ BeginTable
  \/ PlaceTable \/ Cascade \/ Abort \/ WriteOutputs

Next == NextResolve \/ NextSplit

Spec == Init /\ [][Next]_vars

(***************************************************************************)
(* Properties.                                                             *)
(***************************************************************************)
ResolverDone == pc = "split_prepare"

\* T and D lie together on one reported cycle
OnOneCycle(T, D) ==
  \E i \in 1..Len(rs.cycle_report) :
    T \in Range(rs.cycle_report[i]) /\ D \in Range(rs.cycle_report[i])

\* the tables of the CREATE TABLE blocks of a text, in the order of the text
RECURSIVE created_in(_)
created_in(text) ==
  IF text = <<>> THEN <<>>
  ELSE (IF Head(text).tok = "CREATE TABLE" THEN <<Head(text).table>> ELSE <<>>)
         \o created_in(Tail(text))

\* the blocks of the four group files taken in the order core, project, support, misc
PlacedSeq ==
  created_in(out_files["core"]) \o created_in(out_files["project"])
    \o created_in(out_files["support"]) \o created_in(out_files["misc"])

Occurrences(seq, x) == Cardinality({i \in 1..Len(seq) : seq[i] = x})

\* C1: after a run of the assignor that completes, for every placed table T
\* and every placed table D that T references, T and D not together on a
\* reported cycle, D's block comes before T's in core, project, support, misc.
C1_GroupsRespectDependencyOrder ==
  pc = "done" =>
    \A T \in Range(PlacedSeq) \cap DOMAIN graph :
      \A D \in Range(PlacedSeq) \cap graph[T] :
        ~OnOneCycle(T, D) => Index(PlacedSeq, D) < Index(PlacedSeq, T)

\* C2: every resolved table T comes after each dependency D of T that is a
\* graph node, unless T and D lie on one reported cycle; when the resolver
\* has finished every graph node has a position.
C2_TopologicalValidity ==
  /\ \A T \in Range(rs.resolved) \cap DOMAIN graph :
       \A D \in graph[T] \cap DOMAIN graph :
         \/ /\ D \in Range(rs.resolved)
            /\ Index(rs.resolved, D) < Index(rs.resolved, T)
         \/ OnOneCycle(T, D)
  /\ ResolverDone => DOMAIN graph \subseteq Range(rs.resolved)

\* C2 witness: the resolver has finished, a cycle is reported, and some table
\* follows a dependency that it shares no cycle with.
C2_Witness ==
  /\ ResolverDone
  /\ rs.cycle_report # <<>>
  /\ \E T \in DOMAIN graph : \E D \in graph[T] \cap DOMAIN graph :
       /\ T # D
       /\ ~OnOneCycle(T, D)
       /\ Index(rs.resolved, D) < Index(rs.resolved, T)

\* C3: the Resolved Order is a permutation of the graph's node set: every
\* node once, and no table that is not a node.
C3_ResolvedIsPermutation ==
  ResolverDone =>
    /\ Range(rs.resolved) = DOMAIN graph
    /\ Len(rs.resolved) = Cardinality(DOMAIN graph)

\* C4: after a run that does not abort, every table whose per-table file
\* holds a CREATE TABLE block has that block exactly once in the four group
\* files together.
C4_TotalCoverage ==
  pc = "done" =>
    \A t \in DOMAIN files :
      has_create_table(files[t]) => Occurrences(PlacedSeq, t) = 1

\* the line count of the blocks of a text, each block counted whole
RECURSIVE whole_lines(_)
whole_lines(stmts) ==
  IF stmts = <<>> THEN 0
  ELSE count_newlines(Head(stmts)) + 1 + whole_lines(Tail(stmts))

BudgetInv ==
  \A g \in GroupNames :
    /\ group_lines[g] <= LINE_LIMIT
    /\ \A i \in 1..Len(split_statements(group_contents[g])) :
         \E t \in DOMAIN files :
           split_statements(group_contents[g])[i] \in Range(ddl_statements_of(t))
    /\ group_lines[g] = whole_lines(split_statements(group_contents[g]))

\* C5: in every state the accumulated line count of every group is at most
\* LINE_LIMIT and is the line count of the whole blocks in the group's body;
\* a step that rejects a block leaves every group's count and body unchanged.
C5_BudgetRespected ==
  /\ []BudgetInv
  /\ [][(pc = "split_place" /\ pc' # "split_loop")
          => (group_contents' = group_contents /\ group_lines' = group_lines)]_vars

\* C5 witness: a block was rejected by a group filled to the limit while
\* another group holds a block.
C5_Witness ==
  /\ log # <<>>
  /\ \E g \in GroupNames : \E h \in GroupNames \ {g} :
       group_lines[g] = LINE_LIMIT /\ group_lines[h] > 0

\* C6: after a run that completes, no written group file has more than 600
\* lines as the validator counts them.
C6_FilesWithinLineLimit == pc = "done" => check_line_limits = {}

\* the block being placed fits in the i-th group
FitsIn(i) ==
  group_lines[GROUP_ORDER[i]] + count_newlines(ddl_block) + 1 <= LINE_LIMIT

PreferredIndex == group_position(assign_group(order[idx]))

\* C7: the run aborts, with a message naming the table being placed, only
\* when the block fits in no group from the preferred one to misc; a table
\* that is placed goes to the first group, from its preferred one on, that
\* its block fits in.
C7_AbortOnlyWhenNothingFits ==
  [][/\ (pc # "aborted" /\ pc' = "aborted") =>
          /\ pc = "split_place"
          /\ \A i \in PreferredIndex..Len(GROUP_ORDER) : ~FitsIn(i)
          /\ exit_msg'.table = order[idx]
     /\ (pc = "split_place" /\ (\E i \in PreferredIndex..Len(GROUP_ORDER) : FitsIn(i)))
          => pc' # "aborted"
     /\ (pc = "split_place" /\ pc' = "split_loop") =>
          \E i \in PreferredIndex..Len(GROUP_ORDER) :
            /\ FitsIn(i)
            /\ \A j \in PreferredIndex..(i - 1) : ~FitsIn(j)
            /\ group_contents'[GROUP_ORDER[i]] # group_contents[GROUP_ORDER[i]]
            /\ order[idx] \in Range(created_in(group_contents'[GROUP_ORDER[i]]))
            /\ \A g \in GroupNames \ {GROUP_ORDER[i]} :
                 group_contents'[g] = group_contents[g]
    ]_vars

\* C7 witness: the run has aborted after a table was placed in a group later
\* than its preferred one.
C7_Witness ==
  /\ pc = "aborted"
  /\ exit_msg # <<>>
  /\ \E g \in GroupNames : \E t \in Range(created_in(group_contents[g])) :
       group_position(assign_group(t)) < group_position(g)

\* C8: the log entries of any single table, read in log order, move strictly
\* forward in the group sequence.
C8_LogStrictlyIncreasing ==
  /\ \A i \in 1..Len(log) :
       group_position(log[i].from) < group_position(log[i].to)
  /\ \A i \in 1..Len(log) : \A j \in (i + 1)..Len(log) :
       log[i].table = log[j].table
         => group_position(log[i].to) < group_position(log[j].to)

\* C9: every cascade is logged as the line
\* 'Table <name> moved from <group> to <group>'.
C9_CascadeLoggedAsMoved ==
  \A i \in 1..Len(log) :
    log[i] = log_reassignment(log[i].table, log[i].from, log[i].to)

\* C10: every recorded cycle starts and ends with the node met in progress,
\* and that node occurs exactly twice in it.
C10_CycleSegment ==
  \A i \in 1..Len(rs.cycle_report) :
    LET c == rs.cycle_report[i]
    IN /\ c[1] = c[Len(c)]
       /\ Occurrences(c, c[1]) = 2

====
